---- MODULE Spec2Model ----
(***************************************************************************)
(* A model of src/src/lib.rs: the directed multigraph `graph::Graph` and   *)
(* the owned tree `directed_graph::Node`.                                  *)
(*                                                                         *)
(* Three specifications share the variables:                               *)
(*   Spec         the Graph, driven by arbitrary calls of its methods      *)
(*   SpecTraverse depth_first_vec / breadth_first_vec called on a tree     *)
(*                drawn from the trees of at most MaxTreeNodes nodes       *)
(*   SpecJoin     Node::new / Node::join on a few local variables          *)
(***************************************************************************)
EXTENDS Integers, Sequences, FiniteSets, TLC

\* ------------------------------------------------------------------ bounds
\* The number of Graph method calls in one run.
MaxOps == 3
\* The number of nodes of the largest tree traversed.
MaxTreeNodes == 5
\* The number of Node::new / Node::join calls in one run.
MaxTreeOps == 5

\* The instantiation of the type parameters: Nid, N, E of Graph, T of Node.
Nid == {"a", "b"}
NodePayload == {"n"}
EdgePayload == {"e1", "e2"}
T == {1, 2, 3}

NoId == "-"
NoPayload == "-"

VARIABLES
    graph,      \* the Graph: [nodes |-> HashMap<Nid,N>, adjacent |-> HashMap<Nid,Vec<(Nid,E)>>]
    last,       \* the last Graph call: its name, arguments and return value
    pre,        \* the Graph before the last call
    last2,      \* the call before the last
    pre2,       \* the Graph before the call before the last
    nops,       \* the number of Graph calls made
    sources,    \* history: the identifiers passed as `from` to some add_edge call
    tree,       \* SpecTraverse: the tree (&self) the traversals are called on
    called,     \* SpecTraverse: the traversal called last
    list,       \* SpecTraverse: the Vec<T> it returned
    locals,     \* SpecJoin: the caller's initialised local variables, each owning a Node
    lastJoin,   \* SpecJoin: the last call: receiver, argument and destination
    preLocals,  \* SpecJoin: the locals before the last call
    lastJoin2,  \* SpecJoin: the call before the last
    preLocals2, \* SpecJoin: the locals before the call before the last
    tops        \* SpecJoin: the number of calls made

vars == <<graph, last, pre, last2, pre2, nops, sources, tree, called, list,
          locals, lastJoin, preLocals, lastJoin2, preLocals2, tops>>
graphVars == <<graph, last, pre, last2, pre2, nops, sources>>
travVars == <<tree, called, list>>
joinVars == <<locals, lastJoin, preLocals, lastJoin2, preLocals2, tops>>

\* ------------------------------------------------------------ Option, Result
None == <<>>
Some(x) == <<x>>
Ok == "Ok"
Err == "Err"
Unit == "()"

\* ===================================================================== Graph
EmptyMap == [x \in {} |-> x]

\* HashMap::insert / entry().or_default() followed by a write of the value.
MapPut(m, k, v) == [x \in (DOMAIN m) \cup {k} |-> IF x = k THEN v ELSE m[x]]
\* HashMap::remove.
MapRemove(m, k) == [x \in (DOMAIN m) \ {k} |-> m[x]]
\* HashMap::get.
MapGet(m, k) == IF k \in DOMAIN m THEN Some(m[k]) ELSE None

\* Graph::new
GraphNew == [nodes |-> EmptyMap, adjacent |-> EmptyMap]

\* Graph::insert_node: the graph after the call and the returned previous payload.
insert_node(g, node_id, node) ==
    [g |-> [g EXCEPT !.nodes = MapPut(g.nodes, node_id, node)],
     ret |-> MapGet(g.nodes, node_id)]

\* Graph::add_edge: entry(from).or_default() then push((to, edge)).
add_edge(g, from, to, edge) ==
    LET entry == IF from \in DOMAIN g.adjacent THEN g.adjacent[from] ELSE <<>>
    IN  [g EXCEPT !.adjacent = MapPut(g.adjacent, from, Append(entry, <<to, edge>>))]

\* remove_node that also drops the identifier's adjacency entry.
remove_node_cascading(g, node_id) ==
    [g |-> [nodes |-> MapRemove(g.nodes, node_id),
            adjacent |-> MapRemove(g.adjacent, node_id)],
     ret |-> MapGet(g.nodes, node_id)]

\* Graph::remove_node
remove_node(g, node_id) ==
    [g |-> [g EXCEPT !.nodes = MapRemove(g.nodes, node_id)],
     ret |-> MapGet(g.nodes, node_id)]

\* remove_edges without the contains_key test: or_default creates the entry.
remove_edges_unchecked(g, from, to) ==
    LET keep(p) == p[1] # to
        entry == IF from \in DOMAIN g.adjacent THEN g.adjacent[from] ELSE <<>>
    IN  [g |-> [g EXCEPT !.adjacent = MapPut(g.adjacent, from, SelectSeq(entry, keep))],
         ret |-> Ok]

\* remove_edges that deletes only the first entry to `to`.
remove_edges_first_only(g, from, to) ==
    IF from \in DOMAIN g.adjacent
    THEN LET entry == g.adjacent[from]
             hits == {i \in 1..Len(entry) : entry[i][1] = to}
             first == CHOOSE i \in hits : \A j \in hits : i <= j
         IN  [g |-> [g EXCEPT !.adjacent = MapPut(g.adjacent, from,
                        IF hits = {} THEN entry
                        ELSE SubSeq(entry, 1, first - 1) \o SubSeq(entry, first + 1, Len(entry)))],
              ret |-> Ok]
    ELSE [g |-> g, ret |-> Err]

\* Graph::remove_edges: retain(|(id, _)| id != to)
remove_edges(g, from, to) ==
    IF from \in DOMAIN g.adjacent
    THEN LET keep(p) == p[1] # to
             entry == IF from \in DOMAIN g.adjacent THEN g.adjacent[from] ELSE <<>>
         IN  [g |-> [g EXCEPT !.adjacent = MapPut(g.adjacent, from, SelectSeq(entry, keep))],
              ret |-> Ok]
    ELSE [g |-> g, ret |-> Err]

\* remove_edge that drops the adjacency entry once its sequence is empty.
remove_edge_pruning(g, from, edge) ==
    IF from \in DOMAIN g.adjacent
    THEN LET keep(p) == p[2] # edge
             left == SelectSeq(g.adjacent[from], keep)
         IN  [g |-> [g EXCEPT !.adjacent = IF left = <<>> THEN MapRemove(g.adjacent, from)
                                           ELSE MapPut(g.adjacent, from, left)],
              ret |-> Ok]
    ELSE [g |-> g, ret |-> Err]

\* Graph::remove_edge: retain(|(_, e)| e != edge)
remove_edge(g, from, edge) ==
    IF from \in DOMAIN g.adjacent
    THEN LET keep(p) == p[2] # edge
             entry == IF from \in DOMAIN g.adjacent THEN g.adjacent[from] ELSE <<>>
         IN  [g |-> [g EXCEPT !.adjacent = MapPut(g.adjacent, from, SelectSeq(entry, keep))],
              ret |-> Ok]
    ELSE [g |-> g, ret |-> Err]

\* push_undirected_edge whose second add_edge does not swap from and to.
push_undirected_edge_unswapped(g, from, to, edge) ==
    add_edge(add_edge(g, from, to, edge), from, to, edge)

\* Graph::push_undirected_edge
push_undirected_edge(g, from, to, edge) ==
    add_edge(add_edge(g, from, to, edge), to, from, edge)

\* flip_edge that deletes only the first entry of from with the payload.
flip_edge_first_only(g, from, to, edge) ==
    IF from \in DOMAIN g.adjacent
    THEN LET entry == g.adjacent[from]
             hits == {i \in 1..Len(entry) : entry[i][2] = edge}
             first == CHOOSE i \in hits : \A j \in hits : i <= j
             left == IF hits = {} THEN entry
                     ELSE SubSeq(entry, 1, first - 1) \o SubSeq(entry, first + 1, Len(entry))
         IN  [g |-> add_edge([g EXCEPT !.adjacent = MapPut(g.adjacent, from, left)],
                             to, from, edge),
              ret |-> Ok]
    ELSE [g |-> g, ret |-> Err]

\* Graph::flip_edge
flip_edge(g, from, to, edge) ==
    LET r == remove_edge(g, from, edge)
    IN  IF r.ret = Ok
        THEN [g |-> add_edge(r.g, to, from, edge), ret |-> Ok]
        ELSE [g |-> r.g, ret |-> Err]

\* ---------------------------------------------------------- Graph's queries
\* Graph::get_node
get_node(g, node_id) == MapGet(g.nodes, node_id)

\* Graph::contains
contains(g, node_id) == node_id \in DOMAIN g.nodes

\* Graph::edges_from
edges_from(g, node_id) == MapGet(g.adjacent, node_id)

\* Graph::get_adjacent: adjacent.get(node_id).unwrap() panics on None.
get_adjacent(g, node_id) ==
    IF node_id \in DOMAIN g.adjacent
    THEN [panic |-> FALSE,
          val |-> [i \in 1..Len(g.adjacent[node_id]) |-> g.adjacent[node_id][i][1]]]
    ELSE [panic |-> TRUE, val |-> <<>>]

\* Graph::edges_from_to: the payloads of the entries to `to`, in order.
edges_from_to(g, from, to) ==
    IF from \in DOMAIN g.adjacent
    THEN LET match(p) == p[1] = to
             vec == SelectSeq(g.adjacent[from], match)
         IN  Some([i \in 1..Len(vec) |-> vec[i][2]])
    ELSE None

\* Graph::get_edge: the payload of the first entry to `to`.
get_edge(g, from, to) ==
    IF from \in DOMAIN g.adjacent
    THEN LET vec == g.adjacent[from]
             hits == {i \in 1..Len(vec) : vec[i][1] = to}
         IN  IF hits = {} THEN None
             ELSE Some(vec[CHOOSE i \in hits : \A j \in hits : i <= j][2])
    ELSE None

\* Graph::edge_count
edge_count(g, from, to) ==
    IF from \in DOMAIN g.adjacent
    THEN Cardinality({i \in 1..Len(g.adjacent[from]) : g.adjacent[from][i][1] = to})
    ELSE 0

\* ====================================================================== Node
\* A Node<T> is [value |-> T, children |-> the sequence of the owned child Nodes].
\* A Rust value owns its children (Vec<Box<Node<T>>>) and nothing is shared, so a
\* Node is modelled by its value.

\* Node::new
new(value) == [value |-> value, children |-> <<>>]

\* #[derive(Clone)]: the value and, one by one, every boxed child are cloned.
RECURSIVE clone(_)
clone(node) ==
    [value |-> node.value,
     children |-> [i \in 1..Len(node.children) |-> clone(node.children[i])]]

\* join that clones the receiver before the push.
join_clone_first(self, node) ==
    [self |-> [self EXCEPT !.children = Append(self.children, node)],
     ret |-> clone(self)]

\* Node::join: the receiver after the push, and the returned clone of it.
join(self, node) ==
    LET pushed == [self EXCEPT !.children = Append(self.children, node)]
    IN  [self |-> pushed, ret |-> clone(pushed)]

\* depth_first_vec's loop pushing the children last to first (textbook pre-order).
RECURSIVE dfs_loop_stored_order(_, _)
dfs_loop_stored_order(stack, list0) ==
    IF stack = <<>> THEN list0
    ELSE LET current == stack[Len(stack)]
             popped == SubSeq(stack, 1, Len(stack) - 1)
             n == Len(current.children)
         IN  dfs_loop_stored_order(
                 popped \o [i \in 1..n |-> current.children[n + 1 - i]],
                 Append(list0, current.value))

\* The while loop of depth_first_vec: pop the top, record it, push its children.
RECURSIVE dfs_loop(_, _)
dfs_loop(stack, list0) ==
    IF stack = <<>> THEN list0
    ELSE LET current == stack[Len(stack)]
             popped == SubSeq(stack, 1, Len(stack) - 1)
         IN  dfs_loop(popped \o current.children, Append(list0, current.value))

\* Node::depth_first_vec
depth_first_vec(self) == dfs_loop(<<self>>, <<>>)

\* breadth_first_vec's for loop with push_back in place of push_front.
push_back_all(queue, children) == queue \o children

\* The for loop of breadth_first_vec: push_front of each child in stored order.
RECURSIVE push_front_all(_, _)
push_front_all(queue, children) ==
    IF children = <<>> THEN queue
    ELSE push_front_all(<<Head(children)>> \o queue, Tail(children))

\* The while loop of breadth_first_vec: pop_back, record, push_front the children.
RECURSIVE bfs_loop(_, _)
bfs_loop(queue, list0) ==
    IF queue = <<>> THEN list0
    ELSE LET current == queue[Len(queue)]
             popped == SubSeq(queue, 1, Len(queue) - 1)
         IN  bfs_loop(push_front_all(popped, current.children),
                      Append(list0, current.value))

\* Node::breadth_first_vec
breadth_first_vec(self) == bfs_loop(<<self>>, <<>>)

\* The Node<T> values with exactly n nodes, and the sequences of Nodes with n
\* nodes in all.
RECURSIVE NodesOfSize(_), ForestsOfSize(_)
NodesOfSize(n) ==
    {[value |-> v, children |-> f] : v \in T, f \in ForestsOfSize(n - 1)}
ForestsOfSize(n) ==
    IF n = 0 THEN {<<>>}
    ELSE UNION {{<<t>> \o f : t \in NodesOfSize(k), f \in ForestsOfSize(n - k)} : k \in 1..n}
Nodes == UNION {NodesOfSize(n) : n \in 1..MaxTreeNodes}

\* ------------------------------------------------------- traversal actions
DepthFirstVec ==
    /\ list' = depth_first_vec(tree)
    /\ called' = "depth_first_vec"
    /\ UNCHANGED <<tree, graphVars, joinVars>>

BreadthFirstVec ==
    /\ list' = breadth_first_vec(tree)
    /\ called' = "breadth_first_vec"
    /\ UNCHANGED <<tree, graphVars, joinVars>>

\* ------------------------------------------------------------ join actions
\* The caller's variable names.
Names == {"root", "x", "y", "z"}
Discard == "_"

JoinCall(op, recv, arg, dst) == [op |-> op, recv |-> recv, arg |-> arg, dst |-> dst]
NoJoin == JoinCall("none", Discard, Discard, Discard)

JoinStep(locals2, call) ==
    /\ tops < MaxTreeOps
    /\ locals' = locals2
    /\ lastJoin' = call
    /\ preLocals' = locals
    /\ lastJoin2' = lastJoin
    /\ preLocals2' = preLocals
    /\ tops' = tops + 1
    /\ UNCHANGED <<graphVars, travVars>>

\* let dst = Node::new(v);
New ==
    \E dst \in Names \ DOMAIN locals, v \in T :
        JoinStep(MapPut(locals, dst, new(v)), JoinCall("new", Discard, Discard, dst))

\* let dst = recv.join(arg);  or  recv.join(arg);  The argument is moved out of
\* its variable, the receiver is mutated in place, the returned Node is bound to a
\* variable that holds none (dst) or dropped.
Join ==
    \E recv \in DOMAIN locals, arg \in DOMAIN locals :
        /\ recv # arg
        /\ \E dst \in ((Names \ DOMAIN locals) \cup {arg, Discard}) :
              LET r == join(locals[recv], locals[arg])
                  moved == MapRemove(MapPut(locals, recv, r.self), arg)
              IN  JoinStep(IF dst = Discard THEN moved ELSE MapPut(moved, dst, r.ret),
                           JoinCall("join", recv, arg, dst))

\* ------------------------------------------------------------ Graph actions
Call(op, from, to, edge, ret) ==
    [op |-> op, from |-> from, to |-> to, edge |-> edge, ret |-> ret]
NoCall == Call("new", NoId, NoId, NoPayload, Unit)

\* One call: the graph becomes g2, the call is recorded, the history shifts.
\* Every action is guarded by nops < MaxOps, which bounds the run.
Step(g2, call, srcs) ==
    /\ graph' = g2
    /\ sources' = sources \cup srcs
    /\ last' = call
    /\ pre' = graph
    /\ last2' = last
    /\ pre2' = pre
    /\ nops' = nops + 1
    /\ UNCHANGED <<travVars, joinVars>>

InsertNode ==
    /\ nops < MaxOps
    /\ \E id \in Nid, n \in NodePayload :
            LET r == insert_node(graph, id, n)
            IN  Step(r.g, Call("insert_node", id, NoId, n, r.ret), {})

AddEdge ==
    /\ nops < MaxOps
    /\ \E from \in Nid, to \in Nid, e \in EdgePayload :
            Step(add_edge(graph, from, to, e), Call("add_edge", from, to, e, Unit), {from})

RemoveNode ==
    /\ nops < MaxOps
    /\ \E id \in Nid :
            LET r == remove_node(graph, id)
            IN  Step(r.g, Call("remove_node", id, NoId, NoPayload, r.ret), {})

RemoveEdges ==
    /\ nops < MaxOps
    /\ \E from \in Nid, to \in Nid :
            LET r == remove_edges(graph, from, to)
            IN  Step(r.g, Call("remove_edges", from, to, NoPayload, r.ret), {})

RemoveEdge ==
    /\ nops < MaxOps
    /\ \E from \in Nid, e \in EdgePayload :
            LET r == remove_edge(graph, from, e)
            IN  Step(r.g, Call("remove_edge", from, NoId, e, r.ret), {})

PushUndirectedEdge ==
    /\ nops < MaxOps
    /\ \E from \in Nid, to \in Nid, e \in EdgePayload :
            Step(push_undirected_edge(graph, from, to, e),
                 Call("push_undirected_edge", from, to, e, Unit), {from, to})

FlipEdge ==
    /\ nops < MaxOps
    /\ \E from \in Nid, to \in Nid, e \in EdgePayload :
            LET r == flip_edge(graph, from, to, e)
            IN  Step(r.g, Call("flip_edge", from, to, e, r.ret),
                     IF r.ret = Ok THEN {to} ELSE {})

GraphIdle ==
    /\ graph = GraphNew /\ last = NoCall /\ pre = GraphNew
    /\ last2 = NoCall /\ pre2 = GraphNew /\ nops = 0 /\ sources = {}
TravIdle ==
    /\ tree = new(1) /\ called = "none" /\ list = <<>>
JoinIdle ==
    /\ locals = EmptyMap /\ lastJoin = NoJoin /\ preLocals = EmptyMap
    /\ lastJoin2 = NoJoin /\ preLocals2 = EmptyMap /\ tops = 0

Init == GraphIdle /\ TravIdle /\ JoinIdle

Next ==
    \/ InsertNode
    \/ AddEdge
    \/ RemoveNode
    \/ RemoveEdges
    \/ RemoveEdge
    \/ PushUndirectedEdge
    \/ FlipEdge

Spec == Init /\ [][Next]_vars

InitTraverse == GraphIdle /\ JoinIdle /\ tree \in Nodes /\ called = "none" /\ list = <<>>
NextTraverse == DepthFirstVec \/ BreadthFirstVec
SpecTraverse == InitTraverse /\ [][NextTraverse]_vars

InitJoin == GraphIdle /\ TravIdle /\ JoinIdle
NextJoin == New \/ Join
SpecJoin == InitJoin /\ [][NextJoin]_vars

\* =============================================================== Graph claims
\* The entries of seq outside the set drop, in their order.
RECURSIVE Kept(_, _)
Kept(seq, drop) ==
    IF seq = <<>> THEN <<>>
    ELSE (IF Head(seq) \in drop THEN <<>> ELSE <<Head(seq)>>) \o Kept(Tail(seq), drop)

WithPayload(e) == {<<x, e>> : x \in Nid}
WithDestination(to) == {<<to, e>> : e \in EdgePayload}
SeqOf(adj, id) == IF id \in DOMAIN adj THEN adj[id] ELSE <<>>
HasNone(seq, drop) == \A i \in 1..Len(seq) : seq[i] \notin drop

\* g has the edge (a, b, e) and no other edge.
OnlyEdge(g, a, b, e) ==
    /\ a \in DOMAIN g.adjacent
    /\ g.adjacent[a] = << <<b, e>> >>
    /\ \A x \in (DOMAIN g.adjacent) \ {a} : g.adjacent[x] = <<>>

IsFlip(c) == c.op = "flip_edge"
\* The last two calls are flip_edge(a,b,e) then flip_edge(b,a,e), the first on a
\* graph whose only edge is (a,b,e).
FlipThenFlipBack ==
    /\ IsFlip(last) /\ IsFlip(last2)
    /\ last.from = last2.to /\ last.to = last2.from /\ last.edge = last2.edge
    /\ OnlyEdge(pre2, last2.from, last2.to, last2.edge)

\* The adjacency mapping after flip_edge(from,to,e) on adj, when from has an entry:
\* from's entries with payload e are deleted, then (from,e) is appended to to's.
FlipExpected(adj, from, to, e) ==
    LET del == MapPut(adj, from, Kept(adj[from], WithPayload(e)))
    IN  MapPut(del, to, SeqOf(del, to) \o << <<from, e>> >>)

\* C1 as stated: on a graph whose only edge is (a,b,e), flip_edge(a,b,e) returns Ok
\* and leaves edge_count(a,b) = 0 and edge_count(b,a) = 1, for a and b equal or not;
\* a following flip_edge(b,a,e) restores edge_count(a,b) = 1 and edge_count(b,a) = 0;
\* on any graph where a has an entry, flip_edge(a,b,e) deletes a's entries with
\* payload e and appends (a,e) to b's sequence.
C1_Original ==
    /\ (IsFlip(last) /\ OnlyEdge(pre, last.from, last.to, last.edge))
         => /\ last.ret = Ok
            /\ edge_count(graph, last.from, last.to) = 0
            /\ edge_count(graph, last.to, last.from) = 1
    /\ FlipThenFlipBack
         => /\ last.ret = Ok
            /\ edge_count(graph, last2.from, last2.to) = 1
            /\ edge_count(graph, last2.to, last2.from) = 0
    /\ (IsFlip(last) /\ last.from \in DOMAIN pre.adjacent)
         => graph.adjacent = FlipExpected(pre.adjacent, last.from, last.to, last.edge)

\* C1 amended: on a graph whose only edge is (a,b,e) with a # b, flip_edge(a,b,e)
\* returns Ok and leaves edge_count(a,b) = 0 and edge_count(b,a) = 1, and a following
\* flip_edge(b,a,e) restores edge_count(a,b) = 1 and edge_count(b,a) = 0; with a = b
\* the self-loop is deleted and appended again, so edge_count(a,a) = 1 after each
\* flip. On any graph where a has an adjacency entry, flip_edge(a,b,e) deletes every
\* entry of a's sequence with payload e and then appends one entry (a,e) to b's
\* sequence, and changes nothing else.
C1_FlipEdge ==
    /\ (IsFlip(last) /\ OnlyEdge(pre, last.from, last.to, last.edge))
         => /\ last.ret = Ok
            /\ IF last.from # last.to
               THEN /\ edge_count(graph, last.from, last.to) = 0
                    /\ edge_count(graph, last.to, last.from) = 1
               ELSE edge_count(graph, last.from, last.from) = 1
    /\ FlipThenFlipBack
         => /\ last.ret = Ok
            /\ edge_count(graph, last2.from, last2.to) = 1
            /\ last2.from # last2.to => edge_count(graph, last2.to, last2.from) = 0
    /\ (IsFlip(last) /\ last.from \in DOMAIN pre.adjacent)
         => /\ last.ret = Ok
            /\ graph.nodes = pre.nodes
            /\ graph.adjacent = FlipExpected(pre.adjacent, last.from, last.to, last.edge)

\* A flip and its flip back between distinct identifiers.
C1_Witness ==
    /\ FlipThenFlipBack
    /\ last2.from # last2.to
    /\ edge_count(pre, last2.to, last2.from) = 1
    /\ edge_count(graph, last2.from, last2.to) = 1

\* C2 as stated: flip_edge(from,to,e) returns Err exactly when from has no adjacency
\* entry, and then the graph is unchanged; when from has an entry but none of its
\* entries carries e, flip_edge returns Ok and the graph is the same as before.
C2_FlipNoMatchIsNoOp ==
    IsFlip(last) =>
        /\ last.ret = Err <=> last.from \notin DOMAIN pre.adjacent
        /\ last.ret = Err => graph = pre
        /\ (/\ last.from \in DOMAIN pre.adjacent
            /\ HasNone(pre.adjacent[last.from], WithPayload(last.edge)))
             => (last.ret = Ok /\ graph = pre)

IsRemoval(c) == c.op \in {"remove_edges", "remove_edge"}
Dropped(c) == IF c.op = "remove_edges" THEN WithDestination(c.to) ELSE WithPayload(c.edge)

\* C3: remove_edges(from,&to) and remove_edge(from,&e) return Err iff from has no
\* adjacency entry, and then nodes and adjacent are unchanged (no entry is created
\* for from); when from has an entry and nothing in it matches, the call returns Ok
\* and the graph is unchanged.
C3_RemovalErrors ==
    IsRemoval(last) =>
        /\ last.ret \in {Ok, Err}
        /\ last.ret = Err <=> last.from \notin DOMAIN pre.adjacent
        /\ last.ret = Err => (graph.nodes = pre.nodes /\ graph.adjacent = pre.adjacent)
        /\ (/\ last.from \in DOMAIN pre.adjacent
            /\ HasNone(pre.adjacent[last.from], Dropped(last)))
             => (last.ret = Ok /\ graph = pre)

\* A removal that matches nothing in a non-empty sequence, after a removal that failed.
C3_Witness ==
    /\ IsRemoval(last) /\ last.ret = Ok
    /\ pre.adjacent[last.from] # <<>>
    /\ HasNone(pre.adjacent[last.from], Dropped(last))
    /\ IsRemoval(last2) /\ last2.ret = Err

\* The last two calls are push_undirected_edge(a,b,e) then remove_edge(a,&e).
PushThenRemove ==
    /\ last2.op = "push_undirected_edge" /\ last.op = "remove_edge"
    /\ last.from = last2.from /\ last.edge = last2.edge

\* C4 as stated: for all a, b (equal or not) and any prior graph, after
\* push_undirected_edge(a,b,e) then remove_edge(a,&e) only the a->b edge is removed
\* and get_edge(&b,&a) = Some(&e).
C4_Original ==
    PushThenRemove =>
        /\ get_edge(graph, last2.to, last2.from) = Some(last2.edge)
        /\ Len(graph.adjacent[last2.from]) = Len(pre.adjacent[last2.from]) - 1

\* C4 amended: for a # b and any prior graph, after push_undirected_edge(a,b,e) then
\* remove_edge(a,&e): a's sequence has lost the a->b edge and every other entry with
\* payload e, b's sequence is as the push left it, ending with (a,e), so e is among
\* edges_from_to(&b,&a); get_edge(&b,&a) = Some(&e) when b had no edge to a before
\* the push. With a = b both entries of the push are removed.
C4_UndirectedIndependent ==
    PushThenRemove =>
        LET a == last2.from
            b == last2.to
            e == last2.edge
        IN  /\ last.ret = Ok
            /\ graph.adjacent[a] = Kept(SeqOf(pre2.adjacent, a), WithPayload(e))
            /\ a # b =>
                 /\ b \in DOMAIN graph.adjacent
                 /\ graph.adjacent[b] = SeqOf(pre2.adjacent, b) \o << <<a, e>> >>
                 /\ \E i \in 1..Len(edges_from_to(graph, b, a)[1]) :
                        edges_from_to(graph, b, a)[1][i] = e
                 /\ edge_count(graph, b, a) = edge_count(pre2, b, a) + 1
                 /\ edge_count(pre2, b, a) = 0 => get_edge(graph, b, a) = Some(e)
            /\ a = b => get_edge(graph, a, a) # Some(e)

\* push_undirected_edge(a,b,e) with a # b on a graph where a already has an edge
\* with payload e and b an edge to a, then remove_edge(a,&e).
C4_Witness ==
    /\ PushThenRemove
    /\ last2.from # last2.to
    /\ last2.to \in DOMAIN pre2.adjacent
    /\ get_edge(graph, last2.to, last2.from) = Some(last2.edge)
    /\ Len(graph.adjacent[last2.to]) = 2

\* C5: when from has an adjacency entry, remove_edges(from,&to) removes exactly the
\* entries of from's sequence with destination to and keeps the others in order;
\* the other sequences and the nodes are unchanged. After add_edge(a,b,e1),
\* add_edge(a,c,e2) with b # c on a new graph, remove_edges(a,&b) leaves
\* edges_from_to(&a,&b) = Some([]), edge_count(&a,&b) = 0 and
\* edges_from_to(&a,&c) = Some([&e2]).
C5_RemoveEdges ==
    /\ (last.op = "remove_edges" /\ last.from \in DOMAIN pre.adjacent) =>
        /\ graph.nodes = pre.nodes
        /\ DOMAIN graph.adjacent = DOMAIN pre.adjacent
        /\ \A x \in (DOMAIN pre.adjacent) \ {last.from} :
               graph.adjacent[x] = pre.adjacent[x]
        /\ graph.adjacent[last.from] =
               Kept(pre.adjacent[last.from], WithDestination(last.to))
        /\ edges_from_to(graph, last.from, last.to) = Some(<<>>)
        /\ edge_count(graph, last.from, last.to) = 0
    /\ (/\ last.op = "remove_edges" /\ last2.op = "add_edge"
        /\ last2.from = last.from /\ last2.to # last.to
        /\ pre2.nodes = EmptyMap /\ DOMAIN pre2.adjacent = {last.from}
        /\ Len(pre2.adjacent[last.from]) = 1
        /\ pre2.adjacent[last.from][1][1] = last.to)
         => /\ edges_from_to(graph, last.from, last.to) = Some(<<>>)
            /\ edge_count(graph, last.from, last.to) = 0
            /\ edges_from_to(graph, last.from, last2.to) = Some(<<last2.edge>>)

\* add_edge(a,b,e1), add_edge(a,c,e2), remove_edges(a,&b) on a new graph.
C5_Witness ==
    /\ nops = 3
    /\ last.op = "remove_edges" /\ last2.op = "add_edge"
    /\ last2.from = last.from /\ last2.to # last.to
    /\ edge_count(pre2, last.from, last.to) = 1
    /\ edge_count(pre, last.from, last.to) = 1
    /\ graph.adjacent[last.from] = << <<last2.to, last2.edge>> >>

\* C6: remove_node(&id) returns the stored payload (None when there is none) and
\* changes only the node mapping: adjacent is unchanged, so contains(&id) and
\* get_node(&id) report absence while edges_from(&id), edge_count(&x,&id) and
\* get_edge(&x,&id) are as before; contains(&id) holds iff id has a node payload.
C6_RemoveNode ==
    /\ last.op = "remove_node" =>
        /\ last.ret = get_node(pre, last.from)
        /\ graph.adjacent = pre.adjacent
        /\ ~contains(graph, last.from)
        /\ get_node(graph, last.from) = None
        /\ \A x \in Nid \ {last.from} : get_node(graph, x) = get_node(pre, x)
        /\ edges_from(graph, last.from) = edges_from(pre, last.from)
        /\ \A x \in Nid :
               /\ edge_count(graph, x, last.from) = edge_count(pre, x, last.from)
               /\ get_edge(graph, x, last.from) = get_edge(pre, x, last.from)
    /\ \A id \in Nid : contains(graph, id) <=> get_node(graph, id) # None

\* remove_node of an identifier that has a payload, outgoing and incoming edges.
C6_Witness ==
    /\ last.op = "remove_node" /\ last.ret # None
    /\ edges_from(graph, last.from) # None
    /\ \E x \in Nid \ {last.from} :
           /\ edge_count(graph, x, last.from) > 0
           /\ edge_count(graph, last.from, x) > 0

\* C9: the set of identifiers with an adjacency entry never shrinks, and it is the
\* set of identifiers passed as source to add_edge (directly, by
\* push_undirected_edge or by a successful flip_edge); for those, remove_edges and
\* remove_edge return Ok, edges_from is Some and get_adjacent does not panic;
\* get_adjacent panics for every other identifier, whether it has a node payload or
\* is an edge destination.
C9_AdjacencyEntries ==
    /\ DOMAIN pre2.adjacent \subseteq DOMAIN pre.adjacent
    /\ DOMAIN pre.adjacent \subseteq DOMAIN graph.adjacent
    /\ DOMAIN graph.adjacent = sources
    /\ \A a \in Nid :
          IF a \in sources
          THEN /\ \A to \in Nid : remove_edges(graph, a, to).ret = Ok
               /\ \A e \in EdgePayload : remove_edge(graph, a, e).ret = Ok
               /\ edges_from(graph, a) # None
               /\ ~get_adjacent(graph, a).panic
          ELSE get_adjacent(graph, a).panic
    /\ (IsRemoval(last) /\ last.from \in DOMAIN pre.adjacent) => last.ret = Ok

\* An identifier with a node payload that is an edge destination and has no entry,
\* while the source's entry has been emptied.
C9_Witness ==
    \E a \in sources, x \in Nid \ sources :
        /\ graph.adjacent[a] = <<>>
        /\ contains(graph, x)
        /\ edge_count(pre, a, x) > 0
        /\ get_adjacent(graph, x).panic

\* ================================================================ Node claims
\* The number of nodes of a tree, and the number of them holding v.
RECURSIVE Size(_), SizeAll(_)
Size(node) == 1 + SizeAll(node.children)
SizeAll(f) == IF f = <<>> THEN 0 ELSE Size(Head(f)) + SizeAll(Tail(f))

RECURSIVE Holding(_, _), HoldingAll(_, _)
Holding(node, v) == (IF node.value = v THEN 1 ELSE 0) + HoldingAll(node.children, v)
HoldingAll(f, v) == IF f = <<>> THEN 0 ELSE Holding(Head(f), v) + HoldingAll(Tail(f), v)

Occurrences(seq, v) == Cardinality({i \in 1..Len(seq) : seq[i] = v})

\* Every node's value exactly once.
EachNodeOnce(seq, node) ==
    /\ Len(seq) = Size(node)
    /\ \A v \in T : Occurrences(seq, v) = Holding(node, v)

\* The pre-order that takes the children of every node last to first.
RECURSIVE ReversePreorder(_), ReversePreorderAll(_)
ReversePreorder(node) == <<node.value>> \o ReversePreorderAll(node.children)
ReversePreorderAll(f) ==
    IF f = <<>> THEN <<>>
    ELSE ReversePreorder(f[Len(f)]) \o ReversePreorderAll(SubSeq(f, 1, Len(f) - 1))

\* Level order: the values of a level, then those of the next level, which is the
\* children of the level's nodes, parent by parent, in stored order.
RECURSIVE ChildrenOfAll(_)
ChildrenOfAll(level) ==
    IF level = <<>> THEN <<>> ELSE Head(level).children \o ChildrenOfAll(Tail(level))
RECURSIVE LevelOrder(_)
LevelOrder(level) ==
    IF level = <<>> THEN <<>>
    ELSE [i \in 1..Len(level) |-> level[i].value] \o LevelOrder(ChildrenOfAll(level))

\* Node::new(1).join(Node::new(2)).join(Node::new(3)): the Node the chain returns.
ChainReturned == join(join(new(1), new(2)).ret, new(3)).ret
\* root = Node::new(1); root.join(Node::new(2)); root.join(Node::new(3)): root.
RootJoinedTwice == join(join(new(1), new(2)).self, new(3)).self

\* C7: depth_first_vec returns each node's value exactly once, in the pre-order that
\* visits the children of every node in reverse of their stored order; for the tree
\* returned by Node::new(1).join(Node::new(2)).join(Node::new(3)) it returns [1,3,2].
C7_DepthFirst ==
    called = "depth_first_vec" =>
        /\ list = ReversePreorder(tree)
        /\ EachNodeOnce(list, tree)
        /\ tree = ChainReturned => list = <<1, 3, 2>>

\* depth_first_vec of a tree whose root has two children, the first with a subtree,
\* where stored order and reverse order give different lists.
C7_Witness ==
    /\ called = "depth_first_vec"
    /\ Len(tree.children) = 2
    /\ tree.children[1].children # <<>>
    /\ tree.children[1].value # tree.children[2].value
    /\ list[2] = tree.children[2].value

\* C8: breadth_first_vec returns each node's value exactly once in level order: the
\* root, then level by level, siblings in stored order and a level's nodes ordered
\* as their parents; for root 1 with children 2, 3 joined in that order, [1,2,3].
C8_BreadthFirst ==
    called = "breadth_first_vec" =>
        /\ list = LevelOrder(<<tree>>)
        /\ EachNodeOnce(list, tree)
        /\ tree = RootJoinedTwice => list = <<1, 2, 3>>

\* breadth_first_vec of a three-level tree: two children, each with a child.
C8_Witness ==
    /\ called = "breadth_first_vec"
    /\ Len(tree.children) = 2
    /\ tree.children[1].children # <<>>
    /\ tree.children[2].children # <<>>
    /\ tree.children[1].value # tree.children[2].value
    /\ tree.children[1].children[1].value # tree.children[2].children[1].value
    /\ tree.children[2].value # tree.children[1].children[1].value
    /\ list = <<tree.value, tree.children[1].value, tree.children[2].value,
                tree.children[1].children[1].value, tree.children[2].children[1].value>>

IsJoin(c) == c.op = "join"
\* The last two calls are d = r.join(x) and then a join on d that binds its result.
ChainOfJoins ==
    /\ IsJoin(lastJoin2) /\ IsJoin(lastJoin)
    /\ lastJoin2.dst # Discard /\ lastJoin.recv = lastJoin2.dst
    /\ lastJoin.dst # Discard

\* C10: join(child) appends child as the receiver's last child, leaving its value
\* and earlier children as they were, and returns a copy equal to the receiver
\* after the append; the copy is independent: after root.join(x).join(y) the
\* returned tree has root's children followed by x, y, while root has gained only x.
C10_Join ==
    /\ IsJoin(lastJoin) =>
         LET was == preLocals[lastJoin.recv]
             now == locals[lastJoin.recv]
         IN  /\ now.value = was.value
             /\ Len(now.children) = Len(was.children) + 1
             /\ SubSeq(now.children, 1, Len(was.children)) = was.children
             /\ now.children[Len(now.children)] = preLocals[lastJoin.arg]
             /\ lastJoin.dst # Discard => locals[lastJoin.dst] = now
             /\ lastJoin.dst # lastJoin.arg => lastJoin.arg \notin DOMAIN locals
             /\ \A n \in (DOMAIN preLocals) \ {lastJoin.recv, lastJoin.arg, lastJoin.dst} :
                    n \in DOMAIN locals /\ locals[n] = preLocals[n]
    /\ ChainOfJoins =>
         LET root == lastJoin2.recv
             was == preLocals2[root]
             x == preLocals2[lastJoin2.arg]
             y == preLocals[lastJoin.arg]
         IN  /\ locals[lastJoin.dst] =
                    [value |-> was.value, children |-> was.children \o <<x, y>>]
             /\ (lastJoin.arg # root /\ lastJoin.dst # root) =>
                    locals[root] = [value |-> was.value, children |-> was.children \o <<x>>]

\* root.join(x).join(y) with root kept: the returned tree has two children, root one.
C10_Witness ==
    /\ ChainOfJoins
    /\ lastJoin.arg # lastJoin2.recv
    /\ lastJoin2.recv \in DOMAIN locals
    /\ Len(locals[lastJoin2.recv].children) = 1
    /\ Len(locals[lastJoin.dst].children) = 2
    /\ locals[lastJoin.dst].children[1].value # locals[lastJoin.dst].children[2].value

====
